---------------------------- MODULE Spec2Model ----------------------------
(***************************************************************************)
(* A model of the hawkBit device client (src/hawkbit.h, src/hawkbit.cpp):  *)
(* the session object HawkbitClient, its shared JSON document, the static  *)
(* response buffer filled by the HTTP event handler, and the public        *)
(* operations readState, report*, updateRegistration and download.         *)
(*                                                                         *)
(* One action is one call of a public operation, with the server's         *)
(* responses drawn from small sets.  Each operation is an operator from    *)
(* the session state, the arguments and the responses to the new session   *)
(* state, the value returned (or the exception raised) and the trace of    *)
(* transport events of the call.                                           *)
(***************************************************************************)
EXTENDS Integers, Sequences, FiniteSets, TLC

(***************************************************************************)
(* JSON values (the ArduinoJson variant tree).  An object is the sequence  *)
(* of its members in insertion order, which is the order serializeJson     *)
(* writes them in.                                                         *)
(***************************************************************************)
Null == [null |-> TRUE]
Str(s) == [str |-> s]
Num(n) == [num |-> n]
Arr(q) == [arr |-> q]
Bool(b) == [bool |-> b]
Obj(m) == [obj |-> m]
Member(key, val) == [k |-> key, v |-> val]

IsStr(x) == "str" \in DOMAIN x
IsObj(x) == "obj" \in DOMAIN x
IsArr(x) == "arr" \in DOMAIN x

Keys(x) == IF IsObj(x) THEN {x.obj[i].k : i \in 1..Len(x.obj)} ELSE {}

\* variant[key]: the member's value, the null variant when x is no object or
\* has no such member.
Get(x, key) ==
    IF key \in Keys(x)
    THEN LET i == CHOOSE j \in 1..Len(x.obj) : x.obj[j].k = key IN x.obj[i].v
    ELSE Null

\* variant[key] = val: a null variant becomes an object; an existing member
\* keeps its place, a new one is appended.
Put(x, key, val) ==
    LET m == IF IsObj(x) THEN x.obj ELSE <<>>
    IN IF key \in Keys(x)
       THEN Obj([i \in 1..Len(m) |-> IF m[i].k = key THEN Member(key, val) ELSE m[i]])
       ELSE Obj(Append(m, Member(key, val)))

\* variant | "": the string, the default when the variant holds no string.
OrEmpty(x) == IF IsStr(x) THEN x.str ELSE ""

\* variant | 0 for an unsigned integer.
OrZero(x) == IF "num" \in DOMAIN x /\ x.num >= 0 THEN x.num ELSE 0

\* The elements of an array variant, none when the variant is no array.
Elements(x) == IF IsArr(x) THEN x.arr ELSE <<>>

RECURSIVE Join(_, _)
Join(texts, sep) ==
    IF Len(texts) = 0 THEN ""
    ELSE IF Len(texts) = 1 THEN texts[1]
    ELSE texts[1] \o sep \o Join(Tail(texts), sep)

\* serializeJson: the compact JSON text of a variant.
RECURSIVE Serialize(_)
Serialize(x) ==
    IF IsStr(x) THEN "\"" \o x.str \o "\""
    ELSE IF "num" \in DOMAIN x THEN ToString(x.num)
    ELSE IF "bool" \in DOMAIN x THEN (IF x.bool THEN "true" ELSE "false")
    ELSE IF IsArr(x) THEN
        "[" \o Join([i \in 1..Len(x.arr) |-> Serialize(x.arr[i])], ",") \o "]"
    ELSE IF IsObj(x) THEN
        "{" \o Join([i \in 1..Len(x.obj) |->
                       "\"" \o x.obj[i].k \o "\":" \o Serialize(x.obj[i].v)], ",") \o "}"
    ELSE "null"

\* Conversion of a variant to std::string: the string itself, and for any
\* other variant its JSON text ("null" for an absent member).
AsStdString(x) == IF IsStr(x) THEN x.str ELSE Serialize(x)


(***************************************************************************)
(* Bounds of the model.                                                    *)
(***************************************************************************)
\* Bytes of the response buffer resultPayload; stands for
\* MAX_HTTP_OUTPUT_BUFFER (2048), scaled to the body lengths below.
BufferBytes == 3
\* Calls of public operations made on one session.
MaxCalls == 2

(***************************************************************************)
(* Response bodies.  A body is identified by its text; len is the number   *)
(* of bytes it occupies in the buffer (abstract bytes: the i-th byte of    *)
(* the body with text t is [b |-> t, i |-> i]); ok says whether the text   *)
(* is a complete JSON document and doc is the tree deserializeJson leaves  *)
(* in the document for it.  JSON documents are self-delimiting, so no      *)
(* body's bytes are a prefix of another's.                                 *)
(***************************************************************************)
Body(t, n, good, d) == [text |-> t, len |-> n, ok |-> good, doc |-> d]
JsonBody(d, n) == Body(Serialize(d), n, TRUE, d)
EmptyBody == Body("", 0, FALSE, Null)
\* A body that is no JSON (an HTML error page, a truncated document).
GarbageBody == Body("<html>", 1, FALSE, Null)
\* An error page one byte longer than the buffer.
LongBody == Body("<!DOCTYPE html>", BufferBytes + 1, FALSE, Null)

NUL == [b |-> "", i |-> 0]
Bytes(body) == [i \in 1..body.len |-> [b |-> body.text, i |-> i]]

(***************************************************************************)
(* The HTTP event handler and the static write offset output_len.          *)
(* A session state s is [doc, buf, olen]: the shared JsonDocument, the     *)
(* buffer resultPayload (user_data of every request) and output_len.       *)
(***************************************************************************)
Event(name, bytes, isChunked, tls) ==
    [id |-> name, data |-> bytes, chunked |-> isChunked, tlsErr |-> tls]

\* _http_event_handler: one event.  The copy of ON_DATA has no bound: the
\* bytes that fall inside the buffer are kept here, the others are written
\* behind it.
HttpEventHandler(s, evt) ==
    IF evt.id = "ON_DATA" THEN
        IF ~evt.chunked
        THEN [s EXCEPT
                !.buf = [j \in 1..BufferBytes |->
                           IF j > s.olen /\ j <= s.olen + Len(evt.data)
                           THEN evt.data[j - s.olen] ELSE s.buf[j]],
                !.olen = s.olen + Len(evt.data)]
        ELSE s
    ELSE IF evt.id = "ON_FINISH" THEN [s EXCEPT !.olen = 0]
    ELSE IF evt.id = "DISCONNECTED" THEN
        IF evt.tlsErr THEN [s EXCEPT !.olen = 0] ELSE s
    ELSE s

RECURSIVE Dispatch(_, _)
Dispatch(s, events) ==
    IF Len(events) = 0 THEN s
    ELSE Dispatch(HttpEventHandler(s, Head(events)), Tail(events))

(***************************************************************************)
(* A response of the transport to one request: err is what                 *)
(* esp_http_client_perform returns, code what                              *)
(* esp_http_client_get_status_code returns afterwards (-1 when no status   *)
(* line was received), delivered the number of body bytes handed to the    *)
(* event handler before the request ended.                                 *)
(***************************************************************************)
Response(e, c, b, isChunked, n, tls) ==
    [err |-> e, code |-> c, body |-> b, chunked |-> isChunked,
     delivered |-> n, tlsErr |-> tls]
Ok(c, b) == Response("ESP_OK", c, b, FALSE, b.len, FALSE)
OkChunked(c, b) == Response("ESP_OK", c, b, TRUE, b.len, FALSE)
Fail(c, b, n, tls) == Response("ESP_FAIL", c, b, FALSE, n, tls)

\* The events esp_http_client_perform dispatches for a response: the data
\* received, then ON_FINISH when the response is complete, DISCONNECTED when
\* the connection breaks.
EventsOf(r) ==
    (IF r.delivered > 0
     THEN <<Event("ON_DATA", SubSeq(Bytes(r.body), 1, r.delivered), r.chunked, FALSE)>>
     ELSE <<>>)
    \o (IF r.err = "ESP_OK"
        THEN <<Event("ON_FINISH", <<>>, FALSE, FALSE)>>
        ELSE <<Event("DISCONNECTED", <<>>, FALSE, r.tlsErr)>>)

\* esp_http_client_perform on a handle configured with _http_config.
Perform(s, r) == Dispatch(s, EventsOf(r))

\* Every copy of the response stays inside the buffer.
Fits(s, r) == r.chunked \/ s.olen + r.delivered <= BufferBytes

\* A write behind the end of resultPayload is undefined: the program may
\* end, or go on with the members behind the buffer overwritten.
OverrunOutcomes == {"abort", "value"}

(***************************************************************************)
(* The documents the server answers with.                                  *)
(***************************************************************************)
\* One link of a poll document: absent, an empty href, or the href.
LinkForms == {"absent", "empty", "set"}
Link(rel, form, href) ==
    IF form = "absent" THEN <<>>
    ELSE <<Member(rel, Obj(<<Member("href", Str(IF form = "empty" THEN "" ELSE href))>>))>>

DeploymentHref == "X"
ConfigHref == "R"
CancelHref == "K"

\* The poll document with the three links in the given forms.
PollDoc(d, c, x) ==
    Obj(<<Member("config", Obj(<<Member("polling", Obj(<<Member("sleep", Str("00:05:00"))>>))>>)),
          Member("_links", Obj(Link("deploymentBase", d, DeploymentHref)
                               \o Link("configData", c, ConfigHref)
                               \o Link("cancelAction", x, CancelHref)))>>)
PollDocs == {PollDoc(d, c, x) : d \in LinkForms, c \in LinkForms, x \in LinkForms}
PollBodies == {JsonBody(d, 2) : d \in PollDocs}

\* The deployment resource of the specification's scenario: no chunks.
DeploymentDoc42 ==
    Obj(<<Member("id", Str("42")),
          Member("deployment", Obj(<<Member("download", Str("forced")),
                                     Member("update", Str("forced")),
                                     Member("chunks", Arr(<<>>))>>))>>)
\* The hashes of the specification's example, {"sha1":"abc","size":123},
\* with a member of every other kind that is no string.
MixedHashes ==
    Obj(<<Member("sha1", Str("abc")),
          Member("size", Num(123)),
          Member("ok", Bool(TRUE)),
          Member("none", Null),
          Member("nested", Obj(<<Member("md5", Str("d4"))>>)),
          Member("list", Arr(<<Str("9f")>>))>>)
StringHashes == Obj(<<Member("md5", Str("d4")), Member("sha256", Str("9f"))>>)

\* One chunk with the artifacts.
ChunkOs(artifactDocs) ==
    Obj(<<Member("part", Str("os")),
          Member("version", Str("1.0")),
          Member("name", Str("fw")),
          Member("artifacts", Arr(artifactDocs))>>)

\* A deployment of one chunk with three artifacts: mixed hashes, string
\* hashes and two links, neither hashes nor links.
DeploymentDoc7 ==
    Obj(<<Member("id", Str("7")),
          Member("deployment", Obj(<<
              Member("download", Str("attempt")),
              Member("update", Str("attempt")),
              Member("chunks", Arr(<<ChunkOs(<<
                  Obj(<<Member("filename", Str("fw.bin")),
                        Member("size", Num(3)),
                        Member("hashes", MixedHashes),
                        Member("_links", Obj(<<Member("download",
                            Obj(<<Member("href", Str("U"))>>))>>))>>),
                  Obj(<<Member("filename", Str("app.bin")),
                        Member("size", Num(9)),
                        Member("hashes", StringHashes),
                        Member("_links", Obj(<<
                            Member("download", Obj(<<Member("href", Str("V"))>>)),
                            Member("md5sum", Obj(<<Member("href", Str("M"))>>))>>))>>),
                  Obj(<<Member("filename", Str("x.bin"))>>)>>)>>))>>))>>)

\* A deployment whose artifact has a link without href.
DeploymentDoc8 ==
    Obj(<<Member("id", Str("8")),
          Member("deployment", Obj(<<
              Member("download", Str("forced")),
              Member("update", Str("forced")),
              Member("chunks", Arr(<<ChunkOs(<<
                  Obj(<<Member("filename", Str("fw.bin")),
                        Member("size", Num(3)),
                        Member("hashes", StringHashes),
                        Member("_links", Obj(<<
                            Member("download", Obj(<<Member("href", Str("U"))>>)),
                            Member("md5sum", Obj(<<Member("type", Str("md5"))>>))>>))>>)>>)>>))>>))>>)
DeploymentBodies ==
    {JsonBody(DeploymentDoc42, 2), JsonBody(DeploymentDoc7, 3), JsonBody(DeploymentDoc8, 3)}

CancelDoc11 ==
    Obj(<<Member("id", Str("11")),
          Member("cancelAction", Obj(<<Member("stopId", Str("11"))>>))>>)
\* A cancel resource without stopId.
CancelDocBare == Obj(<<Member("id", Str("12"))>>)
CancelBodies == {JsonBody(CancelDoc11, 2), JsonBody(CancelDocBare, 2)}

AllBodies == PollBodies \cup DeploymentBodies \cup CancelBodies \cup {GarbageBody}

(***************************************************************************)
(* deserializeJson(_doc, resultPayload): the document is cleared and the   *)
(* C string at the start of the buffer is decoded.  The buffer is a        *)
(* writable char array, so the strings are decoded in place: the decoder   *)
(* writes terminators into the buffer, and what it leaves there is no      *)
(* JSON document any more.                                                 *)
(***************************************************************************)
StartsWith(buf, body) ==
    /\ body.len > 0
    /\ \A i \in 1..body.len : buf[i] = Bytes(body)[i]

InPlace(buf, body) ==
    IF body.len >= 2 /\ Keys(body.doc) # {}
    THEN [buf EXCEPT ![2] = NUL]
    ELSE buf

Deserialize(s) ==
    LET Decoded(b) ==
            [s |-> [s EXCEPT !.doc = b.doc, !.buf = InPlace(s.buf, b)],
             error |-> ~b.ok]
        Found(found) ==
            IF found # {}
            THEN Decoded(CHOOSE c \in found : TRUE)
            ELSE [s |-> [s EXCEPT !.doc = Null], error |-> TRUE]
    IN Found({b \in AllBodies : b.text = s.buf[1].b /\ StartsWith(s.buf, b)})

(***************************************************************************)
(* The action model of hawkbit.h.                                          *)
(***************************************************************************)
\* Conversion of an int to the uint32_t a result object stores: n modulo 2^32,
\* written as its two 16-bit halves, hi * 65536 + lo.
ToUint32(n) ==
    IF n >= 0
    THEN [hi |-> n \div 65536, lo |-> n % 65536]
    ELSE LET m == (n + 2147483647) + 1
         IN [hi |-> 32768 + (m \div 65536), lo |-> m % 65536]

UpdateResult(code) == [code |-> ToUint32(code)]
DownloadError(code) == [code |-> ToUint32(code)]

Artifact(filename, size, hashes, links) ==
    [filename |-> filename, size |-> size, hashes |-> hashes, links |-> links]
Chunk(part, version, name, artifacts) ==
    [part |-> part, version |-> version, name |-> name, artifacts |-> artifacts]
Deployment(id, download, update, chunks) ==
    [id |-> id, download |-> download, update |-> update, chunks |-> chunks]
Stop(id) == [id |-> id]
Registration(url) == [url |-> url]

\* The default-constructed members of a State.
NoDeployment == Deployment("", "", "", <<>>)
NoStop == Stop("")
NoRegistration == Registration("")

StateNone ==
    [type |-> "NONE", deployment |-> NoDeployment, stop |-> NoStop,
     registration |-> NoRegistration]
\* A State of type CANCEL that also fills the registration.
StateOfStopAndRegistration(stop) ==
    [StateNone EXCEPT !.type = "CANCEL", !.stop = stop,
                      !.registration = Registration(stop.id)]

StateOfStop(stop) == [StateNone EXCEPT !.type = "CANCEL", !.stop = stop]
StateOfRegistration(registration) ==
    [StateNone EXCEPT !.type = "REGISTER", !.registration = registration]
StateOfDeployment(deployment) ==
    [StateNone EXCEPT !.type = "UPDATE", !.deployment = deployment]

(***************************************************************************)
(* The state of a session.                                                 *)
(***************************************************************************)
VARIABLES
    _doc,            \* the shared JsonDocument
    resultPayload,   \* the response buffer, BufferBytes abstract bytes
    output_len,      \* the event handler's static write offset
    _baseUrl, _tenantName, _controllerId, _authToken,
    httpOpen,        \* whether the connection of download's _http is open
    calls,           \* the number of calls made so far
    last             \* the last call: arguments, responses, result, trace

vars == <<_doc, resultPayload, output_len, _baseUrl, _tenantName,
          _controllerId, _authToken, httpOpen, calls, last>>

Session == [doc |-> _doc, buf |-> resultPayload, olen |-> output_len]

(***************************************************************************)
(* Decoding a deployment resource.                                         *)
(***************************************************************************)
\* A map of every member, with the text of the values that are no strings.
ToMapOfAll(x) ==
    [key \in Keys(x) |-> AsStdString(Get(x, key))]

\* toMap: the members whose value is a string.
ToMap(x) ==
    [key \in {k \in Keys(x) : IsStr(Get(x, k))} |-> Get(x, key).str]

\* toLinks reads the href of every member as a const char*, which is null
\* when the member has no string href, and constructs a std::string from it.
\* Constructing a std::string from a null pointer is undefined: the library
\* may throw std::logic_error, the read of address 0 may end the program,
\* or the call may return with some string.
UndefinedOutcomes == {"logic_error", "abort", "value"}
\* The string a build that returns leaves as the link.
UndefinedHref == "?"

\* Whether toLinks constructs a string from a null pointer.
NullHref(x) == \E key \in Keys(x) : ~IsStr(Get(Get(x, key), "href"))

\* toLinks: every member's href, as far as the call returns.
ToLinks(x) ==
    [key \in Keys(x) |->
        IF IsStr(Get(Get(x, key), "href"))
        THEN Get(Get(x, key), "href").str
        ELSE UndefinedHref]

\* Whether decoding the artifacts, the chunks, reaches a null href.
ArtifactsNullHref(x) ==
    \E i \in 1..Len(Elements(x)) : NullHref(Get(Elements(x)[i], "_links"))
ChunksNullHref(x) ==
    \E i \in 1..Len(Elements(x)) : ArtifactsNullHref(Get(Elements(x)[i], "artifacts"))

Artifacts(x) ==
    LET a == Elements(x)
    IN [i \in 1..Len(a) |->
          Artifact(AsStdString(Get(a[i], "filename")),
                   OrZero(Get(a[i], "size")),
                   ToMap(Get(a[i], "hashes")),
                   ToLinks(Get(a[i], "_links")))]

Chunks(x) ==
    LET c == Elements(x)
    IN [i \in 1..Len(c) |->
          Chunk(AsStdString(Get(c[i], "part")),
                AsStdString(Get(c[i], "version")),
                AsStdString(Get(c[i], "name")),
                Artifacts(Get(c[i], "artifacts")))]

(***************************************************************************)
(* Transport handles and the trace of a call.                              *)
(***************************************************************************)
Header(name, value) == <<name, value>>

\* initHttpHandle: a handle for the method and the URL, with the headers of
\* every request.
InitHttpHandle(method, url) ==
    [method |-> method, url |-> url, body |-> "",
     headers |-> {Header("Accept", "application/hal+json"),
                  Header("Content-Type", "application/json"),
                  Header("Authorization", _authToken)}]

\* esp_http_client_set_post_field
SetPostField(h, text) == [h EXCEPT !.body = text]

\* One transport event of a call: init, perform, cleanup of a handle; begin,
\* GET, handler, end of download; throw.
Ev(name, h) == [ev |-> name, h |-> h]
\* A request performed again on the same handle.
RequestRetried(h) ==
    <<Ev("init", h), Ev("perform", h), Ev("perform", h), Ev("cleanup", h)>>

\* A request whose handle is never cleaned up.
RequestUncleaned(h) == <<Ev("init", h), Ev("perform", h)>>

Request(h) == <<Ev("init", h), Ev("perform", h), Ev("cleanup", h)>>

(***************************************************************************)
(* readDeployment, readCancel, readState.                                  *)
(***************************************************************************)
\* The document kept as the last operation left it.
KeepDocument(d) == d

\* _doc.clear()
Clear(d) == Null

\* A read that does not clear the document.
FetchUncleared(s, r) ==
    LET s1 == Perform(s, r)
    IN IF r.err = "ESP_OK" /\ r.code = 200
       THEN Deserialize(s1)
       ELSE [s |-> s1, error |-> FALSE]

\* A read that decodes the payload of every response, whatever its status.
FetchAnyStatus(s, r) ==
    LET s1 == Perform([s EXCEPT !.doc = Clear(s.doc)], r)
    IN IF r.err = "ESP_OK"
       THEN Deserialize(s1)
       ELSE [s |-> s1, error |-> FALSE]

\* The common part of the three reads: clear the document, perform the
\* request, decode the payload of a 200 response (a decode error is ignored).
Fetch(s, r) ==
    LET s1 == Perform([s EXCEPT !.doc = Clear(s.doc)], r)
    IN IF r.err = "ESP_OK" /\ r.code = 200
       THEN Deserialize(s1)
       ELSE [s |-> s1, error |-> FALSE]

\* readDeployment.  undefined says whether the decoding of the chunks
\* constructs a string from a null pointer, and ub is what the build does
\* then; raised is the way the call ends when it does not return.
ReadDeployment(s, href, r, ub) ==
    LET Decoded(t, d, undefined) ==
            [s |-> t,
             value |-> Deployment(AsStdString(Get(d, "id")),
                                  AsStdString(Get(Get(d, "deployment"), "download")),
                                  AsStdString(Get(Get(d, "deployment"), "update")),
                                  Chunks(Get(Get(d, "deployment"), "chunks"))),
             trace |-> Request(InitHttpHandle("GET", href)),
             fits |-> Fits(s, r),
             undefined |-> undefined,
             raised |-> IF undefined /\ ub # "value" THEN ub ELSE ""]
        Fetched(t) ==
            Decoded(t, t.doc, ChunksNullHref(Get(Get(t.doc, "deployment"), "chunks")))
    IN Fetched(Fetch(s, r).s)

ReadCancel(s, href, r) ==
    LET f == Fetch(s, r)
    IN [s |-> f.s,
        value |-> Stop(OrEmpty(Get(Get(f.s.doc, "cancelAction"), "stopId"))),
        trace |-> Request(InitHttpHandle("GET", href)),
        fits |-> Fits(s, r)]

\* The href converted without the default: an absent link gives "null".
HrefUnguarded(d, rel) == AsStdString(Get(Get(Get(d, "_links"), rel), "href"))

\* _doc["_links"][rel]["href"] | ""
Href(d, rel) == OrEmpty(Get(Get(Get(d, "_links"), rel), "href"))

PollUrl == _baseUrl \o "/" \o _tenantName \o "/controller/v1/" \o _controllerId

\* readState with the poll answered by r1 and the follow-up fetch, when one
\* is made, by r2.  polled is the document the link checks read; state is
\* the State returned when raised is empty.
ReadState(s, r1, r2, ub) ==
    LET poll == Request(InitHttpHandle("GET", PollUrl))
        Idle(t, d) ==
            [s |-> t, state |-> StateNone, trace |-> poll, polled |-> d,
             fits |-> Fits(s, r1), undefined |-> FALSE, raised |-> ""]
        Update(dep, d) ==
            [s |-> dep.s,
             state |-> IF dep.raised = ""
                       THEN StateOfDeployment(dep.value) ELSE StateNone,
             trace |-> poll \o dep.trace, polled |-> d,
             fits |-> Fits(s, r1) /\ dep.fits,
             undefined |-> dep.undefined, raised |-> dep.raised]
        Cancel(can, d) ==
            [s |-> can.s, state |-> StateOfStop(can.value),
             trace |-> poll \o can.trace, polled |-> d,
             fits |-> Fits(s, r1) /\ can.fits,
             undefined |-> FALSE, raised |-> ""]
        Polled(t, d) ==
            IF r1.err = "ESP_OK"
            THEN IF Href(d, "deploymentBase") # ""
                 THEN Update(ReadDeployment(t, Href(d, "deploymentBase"), r2, ub), d)
                 ELSE IF Href(d, "configData") # ""
                 THEN [Idle(t, d) EXCEPT
                         !.state = StateOfRegistration(Registration(Href(d, "configData")))]
                 ELSE IF Href(d, "cancelAction") # ""
                 THEN Cancel(ReadCancel(t, Href(d, "cancelAction"), r2), d)
                 ELSE Idle(t, d)
            ELSE Idle(t, d)
        Fetched(t) == Polled(t, t.doc)
    IN Fetched(Fetch(s, r1).s)

(***************************************************************************)
(* Feedback.  The IdProvider of sendFeedback is a Deployment or a Stop:    *)
(* [kind, id].                                                             *)
(***************************************************************************)
IdProvider(kind, id) == [kind |-> kind, id |-> id]

\* The deployment path for every target.
FeedbackUrlOfDeployment(target) ==
    _baseUrl \o "/" \o _tenantName \o "/controller/v1/" \o _controllerId
    \o "/deploymentBase/" \o target.id \o "/feedback"

\* feedbackUrl(const Deployment&) and feedbackUrl(const Stop&)
FeedbackUrl(target) ==
    IF target.kind = "Deployment"
    THEN _baseUrl \o "/" \o _tenantName \o "/controller/v1/" \o _controllerId
         \o "/deploymentBase/" \o target.id \o "/feedback"
    ELSE _baseUrl \o "/" \o _tenantName \o "/controller/v1/" \o _controllerId
         \o "/cancelAction/" \o target.id \o "/feedback"

\* The array createNestedArray("details") makes, with every detail added.
DetailsArray(details) == Arr([i \in 1..Len(details) |-> Str(details[i])])

\* _doc["status"] with details, execution and result.finished set.
WithStatus(d, details, execution, finished) ==
    LET s1 == Put(Get(d, "status"), "details", DetailsArray(details))
        s2 == Put(s1, "execution", Str(execution))
        s3 == Put(s2, "result", Put(Get(s2, "result"), "finished", Str(finished)))
    IN Put(d, "status", s3)

\* The document sendFeedback composes.
FeedbackDoc(d, target, execution, finished, details) ==
    WithStatus(Put(Clear(d), "id", Str(target.id)), details, execution, finished)

\* The result of a write: the status code of the handle after perform,
\* whatever perform returned.
SendFeedback(s, target, execution, finished, details, r) ==
    LET d == FeedbackDoc(s.doc, target, execution, finished, details)
        h == SetPostField(InitHttpHandle("POST", FeedbackUrl(target)), Serialize(d))
    IN [s |-> Perform([s EXCEPT !.doc = d], r),
        result |-> UpdateResult(r.code),
        trace |-> Request(h),
        fits |-> Fits(s, r)]

ReportProgress(s, deployment, details, r) ==
    SendFeedback(s, deployment, "proceeding", "none", details, r)
ReportScheduled(s, deployment, details, r) ==
    SendFeedback(s, deployment, "scheduled", "none", details, r)
ReportResumed(s, deployment, details, r) ==
    SendFeedback(s, deployment, "resumed", "none", details, r)
ReportComplete(s, deployment, success, details, r) ==
    SendFeedback(s, deployment, "closed", IF success THEN "success" ELSE "failure",
                 details, r)
\* reportCanceled sending the phase of reportComplete.
ReportCanceledAsClosed(s, deployment, details, r) ==
    SendFeedback(s, deployment, "closed", "none", details, r)
ReportCanceled(s, deployment, details, r) ==
    SendFeedback(s, deployment, "canceled", "none", details, r)
ReportCancelAccepted(s, stop, details, r) ==
    SendFeedback(s, stop, "closed", "success", details, r)
ReportCancelRejected(s, stop, details, r) ==
    SendFeedback(s, stop, "closed", "failure", details, r)

(***************************************************************************)
(* updateRegistration.  data is the caller's map as the sequence of its    *)
(* entries in key order, the order a std::map is iterated in.              *)
(***************************************************************************)
\* Every mode but MERGE written as "replace".
ModeTextTwoWay(mergeMode) == IF mergeMode = "MERGE" THEN "merge" ELSE "replace"

ModeText(mergeMode) ==
    IF mergeMode = "MERGE" THEN "merge"
    ELSE IF mergeMode = "REPLACE" THEN "replace"
    ELSE "remove"

RECURSIVE PutAll(_, _)
PutAll(x, entries) ==
    IF Len(entries) = 0 THEN x
    ELSE PutAll(Put(x, Head(entries)[1], Str(Head(entries)[2])), Tail(entries))

RegistrationDoc(d, data, mergeMode, details) ==
    LET d1 == Put(Clear(d), "mode", Str(ModeText(mergeMode)))
        d2 == Put(d1, "data", Obj(<<>>))
        d3 == Put(d2, "data", PutAll(Get(d2, "data"), data))
    IN WithStatus(d3, details, "closed", "success")

UpdateRegistration(s, registration, data, mergeMode, details, r) ==
    LET d == RegistrationDoc(s.doc, data, mergeMode, details)
        h == SetPostField(InitHttpHandle("PUT", registration.url), Serialize(d))
    IN [s |-> Perform([s EXCEPT !.doc = d], r),
        result |-> UpdateResult(r.code),
        trace |-> Request(h),
        fits |-> Fits(s, r)]

(***************************************************************************)
(* download(artifact, linkType, function): code is what _http.GET()        *)
(* returns (an HTTP status, or a negative transport error) and raises      *)
(* says whether the handler raises.                                        *)
(***************************************************************************)
HTTP_CODE_OK == 200

Returned == [kind |-> "return", what |-> "", code |-> ToUint32(0)]
\* The program ended inside the call.
Aborted == [kind |-> "abort", what |-> "", code |-> ToUint32(0)]
Thrown(what, code) == [kind |-> "throw", what |-> what, code |-> code]

\* download raising DownloadError where the status is tested, before
\* _http.end().
DownloadThrowsBeforeEnd(open, artifact, linkType, code, raises) ==
    IF linkType \notin DOMAIN artifact.links
    THEN [open |-> open,
          result |-> Thrown("Missing link for download", ToUint32(0)),
          trace |-> <<>>]
    ELSE LET h == [method |-> "GET", url |-> artifact.links[linkType], body |-> "",
                   headers |-> {Header("Authorization", _authToken)}]
             started == <<Ev("begin", h), Ev("GET", h)>>
         IN IF code = HTTP_CODE_OK
            THEN IF raises
                 THEN [open |-> TRUE,
                       result |-> Thrown("handler", ToUint32(0)),
                       trace |-> started \o <<Ev("handler", h), Ev("throw", h)>>]
                 ELSE [open |-> FALSE,
                       result |-> Returned,
                       trace |-> started \o <<Ev("handler", h), Ev("end", h)>>]
            ELSE [open |-> TRUE,
                  result |-> Thrown("DownloadError", DownloadError(code).code),
                  trace |-> started \o <<Ev("throw", h)>>]

Download(open, artifact, linkType, code, raises) ==
    IF linkType \notin DOMAIN artifact.links
    THEN [open |-> open,
          result |-> Thrown("Missing link for download", ToUint32(0)),
          trace |-> <<>>]
    ELSE LET h == [method |-> "GET", url |-> artifact.links[linkType], body |-> "",
                   headers |-> {Header("Authorization", _authToken)}]
             started == <<Ev("begin", h), Ev("GET", h)>>
         IN IF code = HTTP_CODE_OK
            THEN IF raises
                 THEN [open |-> TRUE,
                       result |-> Thrown("handler", ToUint32(0)),
                       trace |-> started \o <<Ev("handler", h), Ev("throw", h)>>]
                 ELSE [open |-> FALSE,
                       result |-> Returned,
                       trace |-> started \o <<Ev("handler", h), Ev("end", h)>>]
            ELSE [open |-> FALSE,
                  result |-> Thrown("DownloadError", DownloadError(code).code),
                  trace |-> started \o <<Ev("end", h), Ev("throw", h)>>]

\* The overload with the relation "md5sum" for "download".
DownloadOfMd5sum(open, artifact, code, raises) ==
    Download(open, artifact, "md5sum", code, raises)

\* download(artifact, function): the relation is "download".
DownloadDefault(open, artifact, code, raises) ==
    Download(open, artifact, "download", code, raises)

(***************************************************************************)
(* The arguments and the responses the calls are made with.                *)
(***************************************************************************)
DetailLists == {<<>>, <<"disk full", "retry">>}
Deployments == {IdProvider("Deployment", "42"), IdProvider("Deployment", "7")}
Stops == {IdProvider("Stop", "11"), IdProvider("Stop", "")}
MergeModes == {"MERGE", "REPLACE", "REMOVE"}
DataMaps == {<<>>, <<<<"hw", "r2">>, <<"model", "X1">>>>}
Registrations == {Registration(ConfigHref)}

EmptyMap == [key \in {} |-> ""]
ArtifactFw == Artifact("fw.bin", 3, [key \in {"sha1"} |-> "abc"], [key \in {"download"} |-> "U"])
ArtifactBoth ==
    Artifact("app.bin", 9, EmptyMap,
             [key \in {"download", "md5sum"} |-> IF key = "download" THEN "V" ELSE "M"])
ArtifactBare == Artifact("x.bin", 0, EmptyMap, EmptyMap)
ArtifactSet == {ArtifactFw, ArtifactBoth, ArtifactBare}
LinkTypes == {"download", "md5sum"}
\* What _http.GET() returns: HTTP statuses and a connection failure.
GetCodes == {200, 204, 404, -1}

\* Answers to the PUT of updateRegistration.
WriteResponses ==
    {Ok(200, EmptyBody), Ok(410, GarbageBody),
     Fail(-1, EmptyBody, 0, TRUE), Fail(200, GarbageBody, 1, FALSE)}

\* Answers to the POST of a report.
ReportResponses ==
    {Ok(200, EmptyBody), Ok(410, GarbageBody), Ok(500, LongBody),
     Fail(-1, EmptyBody, 0, FALSE)}

\* The poll documents the server is drawn to answer with: every combination
\* of present and absent links, and every single link with an empty href.
PolledBodies ==
    {JsonBody(PollDoc(d, c, x), 2) : d \in {"absent", "set"}, c \in {"absent", "set"},
                                     x \in {"absent", "set"}}
    \cup {JsonBody(PollDoc("empty", "set", "set"), 2),
          JsonBody(PollDoc("absent", "empty", "set"), 2),
          JsonBody(PollDoc("empty", "empty", "empty"), 2)}

\* Answers to the poll.
PollResponses ==
    {Ok(200, b) : b \in PolledBodies \cup {GarbageBody, EmptyBody}}
    \cup {OkChunked(200, JsonBody(PollDoc("set", "absent", "absent"), 2)),
          Ok(500, GarbageBody),
          Ok(401, JsonBody(PollDoc("set", "set", "set"), 2)),
          Fail(-1, EmptyBody, 0, TRUE),
          Fail(-1, EmptyBody, 0, FALSE),
          Fail(200, JsonBody(PollDoc("absent", "absent", "set"), 2), 1, FALSE)}

\* Answers to the fetch of a deployment or cancel resource.
FetchResponses ==
    {Ok(200, b) : b \in DeploymentBodies \cup CancelBodies \cup {GarbageBody}}
    \cup {Ok(404, GarbageBody), Fail(-1, EmptyBody, 0, FALSE)}

NoResponse == Response("", 0, EmptyBody, FALSE, 0, FALSE)

\* The record of a call, before any call.
NoCall ==
    [op |-> "", target |-> IdProvider("", ""), details |-> <<>>, success |-> FALSE,
     data |-> <<>>, mergeMode |-> "", url |-> "", artifact |-> ArtifactBare,
     linkType |-> "", raises |-> FALSE, code |-> 0, wasOpen |-> FALSE,
     r1 |-> NoResponse, r2 |-> NoResponse, dirty |-> FALSE, polled |-> Null,
     state |-> StateNone, result |-> UpdateResult(0), outcome |-> Returned,
     trace |-> <<>>, ub |-> "none"]

(***************************************************************************)
(* Construction.  The document is the caller's, empty here; the buffer is  *)
(* zero-initialised; output_len is a zero-initialised static.              *)
(***************************************************************************)
Init ==
    /\ _doc = Null
    /\ resultPayload = [j \in 1..BufferBytes |-> NUL]
    /\ output_len = 0
    /\ _baseUrl = "http://hb"
    /\ _tenantName = "DEFAULT"
    /\ _controllerId = "dev1"
    /\ _authToken = "TargetToken " \o "s3cr3t"
    /\ httpOpen = FALSE
    /\ calls = 0
    /\ last = NoCall

\* The token prefixed again by a call.
ConfigTokenPrefixed ==
    /\ _authToken' = "TargetToken " \o _authToken
    /\ UNCHANGED <<_baseUrl, _tenantName, _controllerId>>

ConfigUnchanged == UNCHANGED <<_baseUrl, _tenantName, _controllerId, _authToken>>

\* One more call is made.
Called ==
    /\ calls < MaxCalls
    /\ last.outcome.kind # "abort"
    /\ calls' = calls + 1

\* The effect of a call on the document, the buffer and the write offset.
Becomes(s) ==
    /\ _doc' = s.doc
    /\ resultPayload' = s.buf
    /\ output_len' = s.olen

\* A call of one of the report operations on a deployment or a stop.  When
\* the response overruns the buffer and the program ends, it ends inside
\* esp_http_client_perform: nothing is cleaned up and nothing returned.
Reported(op, out, target, details, success, r) ==
    /\ Becomes(out.s)
    /\ \E ub \in IF out.fits THEN {"value"} ELSE OverrunOutcomes :
         last' = [NoCall EXCEPT !.op = op, !.target = target, !.details = details,
                                !.success = success, !.r1 = r, !.dirty = (_doc # Null),
                                !.result = out.result,
                                !.outcome = IF ub = "abort" THEN Aborted ELSE Returned,
                                !.trace = IF ub = "abort"
                                          THEN SubSeq(out.trace, 1, 2) ELSE out.trace]
    /\ UNCHANGED httpOpen
    /\ ConfigUnchanged

DoReportProgress ==
    /\ Called
    /\ \E t \in Deployments, d \in DetailLists, r \in ReportResponses :
        Reported("reportProgress", ReportProgress(Session, t, d, r), t, d, FALSE, r)
DoReportScheduled ==
    /\ Called
    /\ \E t \in Deployments, d \in DetailLists, r \in ReportResponses :
        Reported("reportScheduled", ReportScheduled(Session, t, d, r), t, d, FALSE, r)
DoReportResumed ==
    /\ Called
    /\ \E t \in Deployments, d \in DetailLists, r \in ReportResponses :
        Reported("reportResumed", ReportResumed(Session, t, d, r), t, d, FALSE, r)
DoReportComplete ==
    /\ Called
    /\ \E t \in Deployments, ok \in BOOLEAN, d \in DetailLists, r \in ReportResponses :
        Reported("reportComplete", ReportComplete(Session, t, ok, d, r), t, d, ok, r)
DoReportCanceled ==
    /\ Called
    /\ \E t \in Deployments, d \in DetailLists, r \in ReportResponses :
        Reported("reportCanceled", ReportCanceled(Session, t, d, r), t, d, FALSE, r)
DoReportCancelAccepted ==
    /\ Called
    /\ \E t \in Stops, d \in DetailLists, r \in ReportResponses :
        Reported("reportCancelAccepted", ReportCancelAccepted(Session, t, d, r), t, d, FALSE, r)
DoReportCancelRejected ==
    /\ Called
    /\ \E t \in Stops, d \in DetailLists, r \in ReportResponses :
        Reported("reportCancelRejected", ReportCancelRejected(Session, t, d, r), t, d, FALSE, r)

DoUpdateRegistration ==
    /\ Called
    /\ \E reg \in Registrations, data \in DataMaps, m \in MergeModes,
       d \in DetailLists, r \in WriteResponses :
      \E out \in {UpdateRegistration(Session, reg, data, m, d, r)} :
           /\ out.fits
           /\ Becomes(out.s)
           /\ last' = [NoCall EXCEPT !.op = "updateRegistration", !.url = reg.url,
                                     !.data = data, !.mergeMode = m, !.details = d,
                                     !.r1 = r, !.dirty = (_doc # Null),
                                     !.result = out.result, !.trace = out.trace]
           /\ UNCHANGED httpOpen
           /\ ConfigUnchanged

\* Whether readState answered by r1 goes on to fetch a resource.
Fetches(s, r1) == Len(ReadState(s, r1, NoResponse, "value").trace) > 3

\* The way a call that did not return ended.
Raised(how) ==
    IF how = "" THEN Returned
    ELSE IF how = "abort" THEN Aborted
    ELSE Thrown(how, ToUint32(0))

DoReadState ==
    /\ Called
    /\ \E r1 \in PollResponses :
      \E r2 \in IF Fetches(Session, r1) THEN FetchResponses ELSE {NoResponse} :
      \E ub \in UndefinedOutcomes :
      \E out \in {ReadState(Session, r1, r2, ub)} :
           /\ ub \in IF out.undefined THEN UndefinedOutcomes ELSE {"value"}
           /\ out.fits
           /\ Becomes(out.s)
           /\ last' = [NoCall EXCEPT !.op = "readState", !.r1 = r1,
                                     !.r2 = r2,
                                     !.dirty = (_doc # Null), !.polled = out.polled,
                                     !.state = out.state, !.trace = out.trace,
                                     !.ub = IF out.undefined THEN ub ELSE "none",
                                     !.outcome = Raised(out.raised)]
           /\ UNCHANGED httpOpen
           /\ ConfigUnchanged

DoDownload ==
    /\ Called
    /\ \E a \in ArtifactSet, lt \in LinkTypes, code \in GetCodes :
      \E raises \in IF code = HTTP_CODE_OK /\ lt \in DOMAIN a.links
                    THEN BOOLEAN ELSE {FALSE} :
        LET out == Download(httpOpen, a, lt, code, raises)
        IN /\ httpOpen' = out.open
           /\ last' = [NoCall EXCEPT !.op = "download", !.artifact = a, !.linkType = lt,
                                     !.code = code, !.raises = raises,
                                     !.wasOpen = httpOpen,
                                     !.outcome = out.result, !.trace = out.trace]
           /\ UNCHANGED <<_doc, resultPayload, output_len>>
           /\ ConfigUnchanged

\* download without a relation; linkType of the record stays empty.
DoDownloadDefault ==
    /\ Called
    /\ \E a \in ArtifactSet, code \in GetCodes :
      \E raises \in IF code = HTTP_CODE_OK /\ "download" \in DOMAIN a.links
                    THEN BOOLEAN ELSE {FALSE} :
        LET out == DownloadDefault(httpOpen, a, code, raises)
        IN /\ httpOpen' = out.open
           /\ last' = [NoCall EXCEPT !.op = "download", !.artifact = a,
                                     !.code = code, !.raises = raises,
                                     !.wasOpen = httpOpen,
                                     !.outcome = out.result, !.trace = out.trace]
           /\ UNCHANGED <<_doc, resultPayload, output_len>>
           /\ ConfigUnchanged

Next ==
    \/ DoReadState
    \/ DoReportProgress
    \/ DoReportScheduled
    \/ DoReportResumed
    \/ DoReportComplete
    \/ DoReportCanceled
    \/ DoReportCancelAccepted
    \/ DoReportCancelRejected
    \/ DoUpdateRegistration
    \/ DoDownload
    \/ DoDownloadDefault

Spec == Init /\ [][Next]_vars

(***************************************************************************)
(* Properties of readState.                                                *)
(***************************************************************************)
\* Whether the link rel of a poll document has a non-empty href.
HasLink(d, rel) ==
    /\ rel \in Keys(Get(d, "_links"))
    /\ Get(Get(Get(d, "_links"), rel), "href") # Str("")

\* The variant the priority order gives for a poll document.
VariantOf(d) ==
    IF HasLink(d, "deploymentBase") THEN "UPDATE"
    ELSE IF HasLink(d, "configData") THEN "REGISTER"
    ELSE IF HasLink(d, "cancelAction") THEN "CANCEL"
    ELSE "NONE"

\* The poll is answered with HTTP 200 and a body that is a JSON document.
PollReceived ==
    /\ last.op = "readState"
    /\ last.r1.err = "ESP_OK"
    /\ last.r1.code = 200
    /\ last.r1.body.ok

\* C1: for every poll response received with HTTP 200 whose body parses,
\* readState returns the first variant whose link is non-empty in the order
\* UPDATE (deploymentBase), REGISTER (configData), CANCEL (cancelAction),
\* NONE.
C1_PriorityOrder ==
    PollReceived => last.state.type = VariantOf(last.r1.body.doc)

\* A poll document without the links whose href is the empty string.
WithoutEmptyLinks(d) ==
    LET links == Get(d, "_links")
        kept == SelectSeq(links.obj, LAMBDA m : Get(m.v, "href") # Str(""))
    IN Put(d, "_links", Obj(kept))

\* The poll bodies that differ from body only in absent links being links
\* with an empty href, or the reverse.
SameButEmptyLinks(body) ==
    {b \in PollBodies : WithoutEmptyLinks(b.doc) = WithoutEmptyLinks(body.doc)}

\* C2: readState treats a link with an empty href as an absent link: on the
\* same session, with the same answer to the follow-up fetch, two poll
\* documents that differ only in an absent link being an empty href give the
\* same state (variant and payload) and the same requests.
C2_EmptyHrefAsAbsent ==
    [][(calls' = calls + 1 /\ last'.op = "readState" /\ last'.r1.body \in PollBodies)
        => \A b \in SameButEmptyLinks(last'.r1.body) :
              LET other == ReadState(Session, [last'.r1 EXCEPT !.body = b], last'.r2,
                                     last'.ub)
              IN /\ other.state = last'.state
                 /\ other.trace = last'.trace
                 /\ Raised(other.raised) = last'.outcome]_vars

\* readState skipped a link with an empty href and returned CANCEL.
C2_Witness ==
    /\ last.op = "readState"
    /\ last.r1 = Ok(200, JsonBody(PollDoc("absent", "empty", "set"), 2))
    /\ last.state.type = "CANCEL"
    /\ Len(last.trace) = 6

(***************************************************************************)
(* Properties of the report operations and of updateRegistration.          *)
(***************************************************************************)
DeploymentReports ==
    {"reportProgress", "reportScheduled", "reportResumed", "reportComplete",
     "reportCanceled"}
StopReports == {"reportCancelAccepted", "reportCancelRejected"}
ReportOps == DeploymentReports \cup StopReports

\* The (execution, finished) pair of a report operation.
CanonicalPair(op, success) ==
    IF op = "reportProgress" THEN <<"proceeding", "none">>
    ELSE IF op = "reportScheduled" THEN <<"scheduled", "none">>
    ELSE IF op = "reportResumed" THEN <<"resumed", "none">>
    ELSE IF op = "reportCanceled" THEN <<"canceled", "none">>
    ELSE IF op = "reportComplete" /\ success THEN <<"closed", "success">>
    ELSE IF op = "reportComplete" THEN <<"closed", "failure">>
    ELSE IF op = "reportCancelAccepted" THEN <<"closed", "success">>
    ELSE <<"closed", "failure">>

\* The request the last call performed (its first, for readState).
Sent == last.trace[2].h

\* C3: every report operation sends exactly its canonical (execution,
\* finished) pair, for every deployment or stop and every list of details:
\* the body sent is the text of the document, whose status.execution and
\* status.result.finished are the pair of the operation.
C3_CanonicalPairs ==
    last.op \in ReportOps =>
        /\ Sent.body = Serialize(_doc)
        /\ Get(Get(_doc, "status"), "execution")
               = Str(CanonicalPair(last.op, last.success)[1])
        /\ Get(Get(Get(_doc, "status"), "result"), "finished")
               = Str(CanonicalPair(last.op, last.success)[2])

\* reportCanceled was called with details.
C3_Witness ==
    /\ last.op = "reportCanceled"
    /\ last.details # <<>>
    /\ Get(Get(_doc, "status"), "execution") = Str("canceled")

\* C4: every report on a Deployment is one POST to
\* {base}/{tenant}/controller/v1/{controllerId}/deploymentBase/{id}/feedback
\* and every report on a Stop one POST to .../cancelAction/{id}/feedback,
\* with the id of the action passed in and the values given at construction.
C4_FeedbackUrls ==
    last.op \in ReportOps =>
        /\ {i \in 1..Len(last.trace) : last.trace[i].ev = "perform"} = {2}
        /\ Sent.method = "POST"
        /\ Sent.url = "http://hb/DEFAULT/controller/v1/dev1/"
                      \o (IF last.op \in DeploymentReports
                          THEN "deploymentBase/" ELSE "cancelAction/")
                      \o last.target.id \o "/feedback"

\* A report on the stop 11 was posted to its cancelAction path.
C4_Witness ==
    /\ last.op = "reportCancelAccepted"
    /\ Sent.url = "http://hb/DEFAULT/controller/v1/dev1/cancelAction/11/feedback"

Quoted(text) == "\"" \o text \o "\""
DetailsText(details) ==
    "[" \o Join([i \in 1..Len(details) |-> Quoted(details[i])], ",") \o "]"
DataText(data) ==
    "{" \o Join([i \in 1..Len(data) |-> Quoted(data[i][1]) \o ":" \o Quoted(data[i][2])],
                ",") \o "}"
StatusText(details, execution, finished) ==
    "\"status\":{\"details\":" \o DetailsText(details)
    \o ",\"execution\":" \o Quoted(execution)
    \o ",\"result\":{\"finished\":" \o Quoted(finished) \o "}}"

\* C5: the body of every feedback request is exactly
\* {id, status:{details, execution, result:{finished}}} with the id of the
\* action passed in and the caller's details in their order, and holds no
\* field of an earlier operation of the session.
C5_FeedbackBody ==
    last.op \in ReportOps =>
        \E execution \in {"proceeding", "scheduled", "resumed", "canceled", "closed"},
           finished \in {"none", "success", "failure"} :
            Sent.body = "{\"id\":" \o Quoted(last.target.id) \o ","
                        \o StatusText(last.details, execution, finished) \o "}"

\* A report with two details was sent when the document held the content of
\* an earlier operation.
C5_Witness ==
    /\ last.op \in ReportOps
    /\ last.dirty
    /\ last.details = <<"disk full", "retry">>

ModeName(mergeMode) ==
    IF mergeMode = "MERGE" THEN "merge"
    ELSE IF mergeMode = "REPLACE" THEN "replace"
    ELSE IF mergeMode = "REMOVE" THEN "remove"
    ELSE "?"

\* C6: updateRegistration sends one PUT to registration.url() whose body is
\* {mode, data, status:{details, execution:"closed",
\* result:{finished:"success"}}}, with the name of the merge mode, the
\* entries of the caller's map and the caller's details in their order.
C6_RegistrationBody ==
    last.op = "updateRegistration" =>
        /\ Len(last.trace) = 3
        /\ \A i \in 1..3 : last.trace[i].h.method = "PUT" /\ last.trace[i].h.url = last.url
        /\ Sent.body = "{\"mode\":" \o Quoted(ModeName(last.mergeMode))
                       \o ",\"data\":" \o DataText(last.data) \o ","
                       \o StatusText(last.details, "closed", "success") \o "}"

\* updateRegistration was called with REMOVE, a map of two entries and two
\* details when the document held the content of an earlier operation.
C6_Witness ==
    /\ last.op = "updateRegistration"
    /\ last.mergeMode = "REMOVE"
    /\ Len(last.data) = 2
    /\ Len(last.details) = 2
    /\ last.dirty

(***************************************************************************)
(* Properties of failures.                                                 *)
(***************************************************************************)
\* The last readState fetched a resource and the fetch did not succeed or
\* its payload did not parse.
FetchFailed ==
    /\ last.op = "readState"
    /\ Len(last.trace) = 6
    /\ \/ last.r2.err # "ESP_OK"
       \/ last.r2.code # 200
       \/ ~last.r2.body.ok

\* C7: when the fetch of a deployment or cancel resource does not succeed,
\* or its payload does not parse, readState returns no UPDATE and no CANCEL
\* state built from it.
C7_FailedFetchFails ==
    FetchFailed => last.state.type \notin {"UPDATE", "CANCEL"}

\* The results a write returns for the responses the transport completed.
OrdinaryResults ==
    {UpdateResult(r.code) : r \in {w \in WriteResponses \cup ReportResponses :
                                     w.err = "ESP_OK"}}

\* C8: a transport failure is answered with an outcome the caller can tell
\* apart from a normal one: readState does not answer it with the state of
\* "no pending action", a report or updateRegistration does not answer it
\* with the result of a completed request.
C8_TransportFailureSurfaced ==
    /\ (last.op = "readState" /\ last.r1.err # "ESP_OK")
          => last.state # StateNone
    /\ (last.op \in ReportOps \cup {"updateRegistration"} /\ last.r1.err # "ESP_OK")
          => last.result \notin OrdinaryResults

(***************************************************************************)
(* Properties of download.                                                 *)
(***************************************************************************)
\* The last call was a download that started its request.
DownloadStarted == last.op = "download" /\ last.trace # <<>>

\* C9: by whatever path download ends once the request has been started
\* (the handler returns, the status is not success, the handler raises),
\* the connection is released.
C9_ConnectionReleased ==
    DownloadStarted => ~httpOpen

\* The positions of the trace of the last call with the event name.
Positions(name) == {i \in 1..Len(last.trace) : last.trace[i].ev = name}

\* C10: when the status is not success (not HTTP_CODE_OK) download never
\* invokes the handler, ends the connection, and only then raises
\* DownloadError with the status code received; when the status is success
\* the handler is invoked exactly once and no DownloadError is raised.
C10_DownloadError ==
    DownloadStarted =>
        IF last.code = 200
        THEN /\ Cardinality(Positions("handler")) = 1
             /\ last.outcome.what # "DownloadError"
        ELSE /\ Positions("handler") = {}
             /\ Cardinality(Positions("end")) = 1
             /\ Positions("throw") = {Len(last.trace)}
             /\ \A i \in Positions("end") : i < Len(last.trace)
             /\ ~httpOpen
             /\ last.outcome.kind = "throw"
             /\ last.outcome.what = "DownloadError"
             /\ last.code > 0 => last.outcome.code = [hi |-> 0, lo |-> last.code]

\* A download answered with 404 found the connection open and left it
\* closed, raising DownloadError.
C10_Witness ==
    /\ DownloadStarted
    /\ last.code = 404
    /\ last.wasOpen
    /\ ~httpOpen
    /\ last.outcome.what = "DownloadError"

\* The relation the last download resolved.
Relation == IF last.linkType = "" THEN "download" ELSE last.linkType

\* C11: download resolves the relation ("download" when none is given) by
\* lookup in the artifact's links: when it is present the GET goes to that
\* link's URL, when it is absent the call fails with the missing-link error
\* and no transport event happens.
C11_LinkResolution ==
    last.op = "download" =>
        IF Relation \in DOMAIN last.artifact.links
        THEN /\ Len(last.trace) >= 2
             /\ last.trace[1].ev = "begin"
             /\ last.trace[2].ev = "GET"
             /\ \A i \in 1..Len(last.trace) :
                   /\ last.trace[i].h.method = "GET"
                   /\ last.trace[i].h.url = last.artifact.links[Relation]
        ELSE /\ last.trace = <<>>
             /\ last.outcome.kind = "throw"
             /\ last.outcome.what = "Missing link for download"
             /\ httpOpen = last.wasOpen

\* A download without a relation went to the download link of an artifact
\* with two links.
C11_Witness ==
    /\ last.op = "download"
    /\ last.linkType = ""
    /\ last.artifact = ArtifactBoth
    /\ Len(last.trace) = 4
    /\ last.trace[2].h.url = "V"

(***************************************************************************)
(* Properties of the session.                                              *)
(***************************************************************************)
\* C12: every operation performs a bounded number of requests and repeats
\* none: a report and updateRegistration perform exactly one; readState
\* performs one when it returns NONE or REGISTER and two, the poll and then
\* the fetch of the link, when it returns UPDATE or CANCEL, also when a
\* request fails.
C12_RoundTrips ==
    /\ last.op \in ReportOps \cup {"updateRegistration"}
          => Cardinality(Positions("perform")) = 1
    /\ (last.op = "readState" /\ last.outcome.kind = "return")
          => /\ Cardinality(Positions("perform"))
                   = IF last.state.type \in {"UPDATE", "CANCEL"} THEN 2 ELSE 1
             /\ \A i, j \in Positions("perform") :
                   i # j => last.trace[i].h.url # last.trace[j].h.url

\* readState returned UPDATE after a fetch that failed at the transport:
\* two requests were performed.
C12_Witness ==
    /\ last.op = "readState"
    /\ last.state.type = "UPDATE"
    /\ last.r2.err # "ESP_OK"
    /\ Cardinality(Positions("perform")) = 2

\* The session as construction leaves it: an empty document, a zeroed
\* buffer, the write offset 0.
FreshSession ==
    [doc |-> Null, buf |-> [j \in 1..BufferBytes |-> NUL], olen |-> 0]

\* C13: every operation is self-contained: with the same arguments and the
\* same responses, a call made after any history of earlier calls gives the
\* result and sends the requests the same call gives on a new session with
\* the same configuration.
C13_SelfContained ==
    [][(calls' = calls + 1 /\ last'.op \in {"readState", "updateRegistration"})
        => IF last'.op = "readState"
           THEN LET fresh == ReadState(FreshSession, last'.r1, last'.r2, last'.ub)
                IN /\ fresh.state = last'.state
                   /\ fresh.trace = last'.trace
                   /\ Raised(fresh.raised) = last'.outcome
           ELSE LET fresh == UpdateRegistration(FreshSession, Registration(last'.url),
                                                last'.data, last'.mergeMode,
                                                last'.details, last'.r1)
                IN /\ fresh.result = last'.result
                   /\ fresh.trace = last'.trace]_vars

\* Documents an earlier operation may have left.
OtherDocuments == {Null, PollDoc("set", "set", "set"), DeploymentDoc7}

\* C14: every operation that uses the shared document clears it first, so
\* what it sends, returns and leaves in the document is composed or decoded
\* by that operation alone: the call gives the same result, requests and
\* document whatever the document held when it started.
C14_DocumentCleared ==
    [][(calls' = calls + 1 /\ last'.op \in ReportOps \cup {"readState", "updateRegistration"})
        => \A d \in OtherDocuments :
             LET other == [Session EXCEPT !.doc = d]
             IN IF last'.op = "readState"
                THEN LET out == ReadState(other, last'.r1, last'.r2, last'.ub)
                     IN /\ out.state = last'.state
                        /\ Raised(out.raised) = last'.outcome
                        /\ out.trace = last'.trace
                        /\ out.s.doc = _doc'
                ELSE IF last'.op = "updateRegistration"
                THEN LET out == UpdateRegistration(other, Registration(last'.url),
                                                   last'.data, last'.mergeMode,
                                                   last'.details, last'.r1)
                     IN /\ out.trace = last'.trace
                        /\ out.s.doc = _doc'
                ELSE LET pair == CanonicalPair(last'.op, last'.success)
                         out == SendFeedback(other, last'.target, pair[1], pair[2],
                                             last'.details, last'.r1)
                     IN /\ last'.outcome.kind = "return" => out.trace = last'.trace
                        /\ out.s.doc = _doc']_vars

\* readState started with a document an earlier operation had filled, was
\* answered with a status that is not 200 and left the document empty.
C14_Witness ==
    /\ last.op = "readState"
    /\ last.dirty
    /\ last.r1.err = "ESP_OK"
    /\ last.r1.code # 200
    /\ _doc = Null

C16_RequestHeaders ==
    \A i \in 1..Len(last.trace) :
        LET h == last.trace[i].h
        IN /\ Header("Accept", "application/hal+json") \in h.headers
           /\ Header("Authorization", "TargetToken s3cr3t") \in h.headers
           /\ Header("Content-Type", "application/json") \in h.headers
                 <=> h.method \in {"PUT", "POST"}


(***************************************************************************)
(* The State readState returns and the decoding of resources.              *)
(***************************************************************************)
\* The last call was a readState that returned a State.
StateReturned == last.op = "readState" /\ last.outcome.kind = "return"

\* C17: a State returned by readState has one of the four types, and the
\* payload of every variant other than its type's is the default-constructed
\* one: NONE has no payload, UPDATE only a deployment, CANCEL only a stop,
\* REGISTER only a registration, whatever the calls before returned.
C17_OneVariant ==
    StateReturned =>
        /\ last.state.type \in {"NONE", "UPDATE", "CANCEL", "REGISTER"}
        /\ last.state.type # "UPDATE" => last.state.deployment = NoDeployment
        /\ last.state.type # "CANCEL" => last.state.stop = NoStop
        /\ last.state.type # "REGISTER" => last.state.registration = NoRegistration

\* A second call returned CANCEL with the stop of the resource and nothing
\* else.
C17_Witness ==
    /\ StateReturned
    /\ calls = 2
    /\ last.state.type = "CANCEL"
    /\ last.state.stop = Stop("11")
    /\ last.state.deployment = NoDeployment
    /\ last.state.registration = NoRegistration


\* The fetch is answered with HTTP 200 and a body that is a JSON document.
ResourceReceived ==
    /\ last.r2.err = "ESP_OK"
    /\ last.r2.code = 200
    /\ last.r2.body.ok

\* C18: when the poll response received carries a non-empty deploymentBase
\* href, the second request of readState goes to that href, and for a
\* resource received the State is UPDATE with the id of the resource and one
\* chunk per entry of deployment.chunks; for cancelAction the second request
\* goes to its href and the Stop has the resource's cancelAction.stopId, ""
\* when absent; for configData the State is REGISTER with the href as url
\* and the poll is the only request.
C18_FetchedResource ==
    PollReceived =>
        IF VariantOf(last.r1.body.doc) = "UPDATE"
        THEN /\ Len(last.trace) = 6
             /\ \A i \in 4..6 :
                   last.trace[i].h.url = Href(last.r1.body.doc, "deploymentBase")
             /\ ResourceReceived =>
                   /\ StateReturned
                   /\ last.state.type = "UPDATE"
                   /\ Str(last.state.deployment.id) = Get(last.r2.body.doc, "id")
                   /\ Len(last.state.deployment.chunks)
                         = Len(Elements(Get(Get(last.r2.body.doc, "deployment"), "chunks")))
        ELSE IF VariantOf(last.r1.body.doc) = "CANCEL"
        THEN /\ Len(last.trace) = 6
             /\ \A i \in 4..6 :
                   last.trace[i].h.url = Href(last.r1.body.doc, "cancelAction")
             /\ ResourceReceived =>
                   /\ StateReturned
                   /\ last.state.type = "CANCEL"
                   /\ last.state.stop.id
                         = OrEmpty(Get(Get(last.r2.body.doc, "cancelAction"), "stopId"))
        ELSE IF VariantOf(last.r1.body.doc) = "REGISTER"
        THEN /\ Len(last.trace) = 3
             /\ StateReturned
             /\ last.state.type = "REGISTER"
             /\ last.state.registration.url = Href(last.r1.body.doc, "configData")
        ELSE TRUE


\* The last call was a readState that fetched a deployment resource and
\* decoded it without meeting a link without href.
DeploymentDecoded ==
    /\ last.op = "readState"
    /\ Len(last.trace) = 6
    /\ Href(last.polled, "deploymentBase") # ""
    /\ last.ub = "none"

\* The artifact documents of chunk i of the decoded resource.
ArtifactDocs(i) ==
    Elements(Get(Elements(Get(Get(_doc, "deployment"), "chunks"))[i], "artifacts"))

\* C19: for every artifact of a decoded deployment, the hashes of the
\* Artifact returned have as keys exactly the keys of the `hashes` object
\* whose value is a string, each with the value of the object, and the
\* call returns: members that are numbers, booleans, null, objects or
\* arrays are dropped without an error.
C19_HashesKept ==
    DeploymentDecoded =>
        /\ StateReturned
        /\ last.state.type = "UPDATE"
        /\ \A i \in 1..Len(last.state.deployment.chunks) :
              /\ Len(last.state.deployment.chunks[i].artifacts) = Len(ArtifactDocs(i))
              /\ \A j \in 1..Len(ArtifactDocs(i)) :
                    /\ DOMAIN last.state.deployment.chunks[i].artifacts[j].hashes
                          = {k \in Keys(Get(ArtifactDocs(i)[j], "hashes")) :
                                IsStr(Get(Get(ArtifactDocs(i)[j], "hashes"), k))}
                    /\ \A k \in DOMAIN last.state.deployment.chunks[i].artifacts[j].hashes :
                          Str(last.state.deployment.chunks[i].artifacts[j].hashes[k])
                            = Get(Get(ArtifactDocs(i)[j], "hashes"), k)

\* The deployment with the mixed hashes was decoded: of the six members of
\* the first artifact's hashes only sha1 is kept, the second artifact keeps
\* both, the third has none.
C19_Witness ==
    /\ DeploymentDecoded
    /\ _doc = DeploymentDoc7
    /\ Get(ArtifactDocs(1)[1], "hashes") = MixedHashes
    /\ DOMAIN last.state.deployment.chunks[1].artifacts[1].hashes = {"sha1"}
    /\ last.state.deployment.chunks[1].artifacts[1].hashes["sha1"] = "abc"
    /\ DOMAIN last.state.deployment.chunks[1].artifacts[2].hashes = {"md5", "sha256"}
    /\ DOMAIN last.state.deployment.chunks[1].artifacts[3].hashes = {}


\* The last call was a readState that fetched a deployment resource.
DeploymentFetched ==
    /\ last.op = "readState"
    /\ Len(last.trace) = 6
    /\ Href(last.polled, "deploymentBase") # ""

\* C20: the links of every Artifact returned map each relation of the
\* `_links` object to the href of its entry; and when an entry of the
\* decoded resource has no string href the call ends in an error and
\* returns no State.
C20_LinksDecoded ==
    DeploymentFetched =>
        IF ChunksNullHref(Get(Get(_doc, "deployment"), "chunks"))
        THEN last.outcome.kind = "throw"
        ELSE /\ StateReturned
             /\ \A i \in 1..Len(last.state.deployment.chunks) :
                 \A j \in 1..Len(ArtifactDocs(i)) :
                   /\ DOMAIN last.state.deployment.chunks[i].artifacts[j].links
                         = Keys(Get(ArtifactDocs(i)[j], "_links"))
                   /\ \A k \in Keys(Get(ArtifactDocs(i)[j], "_links")) :
                         Str(last.state.deployment.chunks[i].artifacts[j].links[k])
                           = Get(Get(Get(ArtifactDocs(i)[j], "_links"), k), "href")


(***************************************************************************)
(* Statuses, handles and the response buffer.                              *)
(***************************************************************************)
\* The poll completed at the transport level with a status other than 200.
PollRefused ==
    /\ last.op = "readState"
    /\ last.r1.err = "ESP_OK"
    /\ last.r1.code # 200

\* C21: when the poll completes with an HTTP status other than 200,
\* readState returns NONE and the poll is its only request, whatever the
\* body of the response and whatever the calls before left behind.
C21_RefusedPollIsNone ==
    PollRefused =>
        /\ StateReturned
        /\ last.state = StateNone
        /\ last.trace = Request(InitHttpHandle("GET", PollUrl))
        /\ last.r2 = NoResponse

\* A poll answered 401 with a body that carries all three links, on a
\* session whose document an earlier call had filled.
C21_Witness ==
    /\ PollRefused
    /\ last.r1.code = 401
    /\ VariantOf(last.r1.body.doc) = "UPDATE"
    /\ HasLink(last.r1.body.doc, "configData")
    /\ HasLink(last.r1.body.doc, "cancelAction")
    /\ last.dirty
    /\ last.state.type = "NONE"


\* The operations that make their requests on handles of initHttpHandle.
HandleOps == ReportOps \cup {"readState", "updateRegistration"}

\* The number of handles live after event i of the last call's trace: the
\* handles created up to i less the handles cleaned up up to i.
Live(i) ==
    Cardinality({j \in Positions("init") : j <= i})
    - Cardinality({j \in Positions("cleanup") : j <= i})

\* C22: in every call of readState, of a report and of updateRegistration
\* that ends, by a return or by an exception, each handle created is
\* cleaned up once before the call ends and before the next handle is
\* created: no event finds more than one
\* handle live, a handle is created only when none is live, a request is
\* performed and a handle cleaned up only on the one live handle, and none
\* is live at the end.
C22_HandlesCleanedUp ==
    (last.op \in HandleOps /\ last.outcome.kind \in {"return", "throw"}) =>
        /\ Positions("init") # {}
        /\ Cardinality(Positions("init")) = Cardinality(Positions("cleanup"))
        /\ Live(Len(last.trace)) = 0
        /\ \A i \in 1..Len(last.trace) :
              /\ Live(i) \in {0, 1}
              /\ last.trace[i].ev = "init" => Live(i) = 1
              /\ last.trace[i].ev = "perform"
                    => /\ Live(i) = 1
                       /\ last.trace[i - 1] = Ev("init", last.trace[i].h)
              /\ last.trace[i].ev = "cleanup"
                    => /\ Live(i) = 0
                       /\ last.trace[i - 1] = Ev("perform", last.trace[i].h)

\* readState whose poll succeeded and whose fetch failed at the transport:
\* the poll's handle was cleaned up before the next was created, and that
\* one at the end.
C22_Witness ==
    /\ last.op = "readState"
    /\ last.r1.err = "ESP_OK"
    /\ last.r2.err = "ESP_FAIL"
    /\ Len(last.trace) = 6
    /\ last.trace[3].ev = "cleanup"
    /\ last.trace[4].ev = "init"
    /\ last.trace[4].h # last.trace[3].h
    /\ last.trace[6].ev = "cleanup"


\* C23: the write offset is 0 when the first data event of a request
\* arrives: before the first request of a call whose response delivers data,
\* and in readState after the poll, before a fetch whose response delivers
\* data.
C23_StagedAtZero ==
    [][/\ (last'.op \in HandleOps /\ last'.r1.delivered > 0) => output_len = 0
       /\ (last'.op = "readState" /\ last'.r2.delivered > 0)
             => Fetch(Session, last'.r1).s.olen = 0]_vars


\* C24: every copy of the event handler stays inside resultPayload: the
\* response of the first request of a call fits behind the write offset the
\* call starts with, and in readState the response of the fetch fits behind
\* the offset the poll leaves.
C24_WritesInside ==
    [][/\ last'.op \in HandleOps => Fits(Session, last'.r1)
       /\ (last'.op = "readState" /\ last'.r2 # NoResponse)
             => Fits(Fetch(Session, last'.r1).s, last'.r2)]_vars

=============================================================================
